---- MODULE Spec2Model ----
(***************************************************************************)
(* Price tracker: the price-check cycle (price_engine.py, checker.py,      *)
(* models.py, notifier.py).                                                *)
(*                                                                         *)
(* Units.  Prices are integers in cents (the code rounds every random-walk *)
(* price to 2 decimals).  discount_percent is an integer in tenths of a    *)
(* percent (the code rounds it to 1 decimal).  Times are integers in days  *)
(* read from one clock, datetime.utcnow(); a percent threshold is in       *)
(* tenths of a percent, an absolute threshold in cents.                    *)
(* A nullable column is <<>> (None) or <<v>>.                              *)
(***************************************************************************)
EXTENDS Integers, Sequences, FiniteSets

(***************************************************************************)
(* Bounds of the model.                                                    *)
(***************************************************************************)
\* the clock stops advancing at MaxTime
MaxTime == 4

(***************************************************************************)
(* Program constants.                                                      *)
(***************************************************************************)
\* checker.py: NOTIFICATION_COOLDOWN_DAYS
NOTIFICATION_COOLDOWN_DAYS == 3
\* price_engine.py: FLUCTUATION_CONFIG
min_percent == -5
max_percent == 3
flash_sale_min == -15
flash_sale_max == -10

(***************************************************************************)
(* The catalog: rows that seeding creates and the cycle never creates or   *)
(* deletes.  Two retailers offer the product named "A".  The base prices   *)
(* are small stand-ins for the seeded x.99 prices: 0.21 is, like the       *)
(* seeded 99.99, a price whose half (0.105) Python's round(_, 2) takes     *)
(* DOWN (to 0.10); 0.20 has an exactly representable half.                 *)
(***************************************************************************)
ProductIds == {1, 2}
\* Product.query.all(): rows in primary-key order
ProductOrder == <<1, 2>>
Product ==
  [p \in ProductIds |->
     IF p = 1
       THEN [name |-> "A", retailer |-> "Walmart", base_price |-> 21]
       ELSE [name |-> "A", retailer |-> "Target", base_price |-> 20]]

\* SaleEvent rows: two windows on product 1 that overlap on day 2, and a
\* one-day window on product 2 at three quarters of its base price.
SaleEvents ==
  { [id |-> 1, product_id |-> 1, sale_price |-> 15, start_date |-> 1, end_date |-> 2],
    [id |-> 2, product_id |-> 1, sale_price |-> 12, start_date |-> 2, end_date |-> 3],
    [id |-> 3, product_id |-> 2, sale_price |-> 15, start_date |-> 4, end_date |-> 4] }

WatchIds == {1, 2, 3}
\* Watch.query.all(): rows in primary-key order
WatchOrder == <<1, 2, 3>>
\* The Watch rows as registration leaves them (app.py index(): one watch per
\* retailer of the product name, all with the submitted threshold).
InitialWatches ==
  [w \in WatchIds |->
     CASE w = 1 -> [email |-> "alice", product_id |-> 1, threshold_type |-> "percent",
                    threshold_value |-> 200, last_notified_at |-> <<>>]
       [] w = 2 -> [email |-> "alice", product_id |-> 2, threshold_type |-> "percent",
                    threshold_value |-> 200, last_notified_at |-> <<>>]
       [] w = 3 -> [email |-> "bob", product_id |-> 1, threshold_type |-> "absolute",
                    threshold_value |-> 16, last_notified_at |-> <<>>]]

\* the threads that can run a cycle: the APScheduler job and a request/CLI call
Threads == {"scheduler", "request"}

(***************************************************************************)
(* Pure functions.                                                         *)
(***************************************************************************)
\* Python round(): the integer nearest to n/d (d > 0), an exact tie going to
\* the even neighbour.  (For the catalog's base prices this agrees with the
\* IEEE-double results of price_engine.py:60-67 and models.py:44.)
Round(n, d) ==
  LET q == n \div d
      r == n % d
  IN  IF 2 * r < d THEN q
      ELSE IF 2 * r > d THEN q + 1
      ELSE IF q % 2 = 0 THEN q ELSE q + 1

\* Product.discount_percent, in tenths of a percent
discount_percent(base_price, current_price) ==
  IF base_price <= 0 THEN 0
  ELSE Round(1000 * (base_price - current_price), base_price)

\* Watch.threshold_met(product)
threshold_met(watch, base_price, current_price) ==
  IF watch.threshold_type = "percent"
    THEN discount_percent(base_price, current_price) >= watch.threshold_value
    ELSE current_price <= watch.threshold_value

\* fault variants of is_cooldown_expired: a cooldown one day short; a strict
\* comparison at the boundary; a never-notified watch taken as blocked
is_cooldown_expired_short(watch, now) ==
  IF watch.last_notified_at = <<>> THEN TRUE
  ELSE now >= watch.last_notified_at[1] + NOTIFICATION_COOLDOWN_DAYS - 1

is_cooldown_expired_strict(watch, now) ==
  IF watch.last_notified_at = <<>> THEN TRUE
  ELSE now > watch.last_notified_at[1] + NOTIFICATION_COOLDOWN_DAYS

is_cooldown_expired_null_blocked(watch, now) ==
  IF watch.last_notified_at = <<>> THEN FALSE
  ELSE now >= watch.last_notified_at[1] + NOTIFICATION_COOLDOWN_DAYS

\* is_cooldown_expired(watch), with utcnow() = now
is_cooldown_expired(watch, now) ==
  IF watch.last_notified_at = <<>> THEN TRUE
  ELSE now >= watch.last_notified_at[1] + NOTIFICATION_COOLDOWN_DAYS

\* apply_random_fluctuation(product) for the drawn percent_change pct:
\* current * (1 + pct/100), clamped to [base * 0.5, base], then rounded to cents.
\* The value is kept as a numerator over 100.
apply_random_fluctuation(current_price, base_price, pct) ==
  LET raw == current_price * (100 + pct)
      capped == IF raw < base_price * 100 THEN raw ELSE base_price * 100
      floored == IF capped > base_price * 50 THEN capped ELSE base_price * 50
  IN  Round(floored, 100)

\* the percent_change draws: random.uniform over the flash or the normal range
PercentDraws(flash) ==
  IF flash THEN flash_sale_min .. flash_sale_max ELSE min_percent .. max_percent

\* SaleEvent.is_active at utcnow() = now
is_active(sale, now) == sale.start_date <= now /\ now <= sale.end_date

\* fault variant of ActiveSales: the window is open at its end
ActiveSales_exclusive_end(product_id, now) ==
  { s \in SaleEvents :
      s.product_id = product_id /\ s.start_date <= now /\ s.end_date > now }

\* get_active_sale(product_id): the rows the query matches at utcnow() = now
ActiveSales(product_id, now) ==
  { s \in SaleEvents :
      s.product_id = product_id /\ s.start_date <= now /\ s.end_date >= now }


\* sorted(deals, key=current_price): a stable insertion of d into sorted s
InsertByPrice(s, d) ==
  LET after == { i \in 1..Len(s) : s[i].current_price <= d.current_price }
      k == Cardinality(after)
  IN  SubSeq(s, 1, k) \o <<d>> \o SubSeq(s, k + 1, Len(s))

RECURSIVE SortByPrice(_)
SortByPrice(deals) ==
  IF deals = <<>> THEN <<>>
  ELSE InsertByPrice(SortByPrice(SubSeq(deals, 1, Len(deals) - 1)), deals[Len(deals)])

\* fault variant of check_watch: the cooldown is evaluated for every watch,
\* not only for those whose threshold is met
check_watch_cooldown_first(watch_id, watch, current_price, now) ==
  LET product == Product[watch.product_id]
      met == threshold_met(watch, product.base_price, current_price)
      expired == is_cooldown_expired(watch, now)
  IN  [watch_id |-> watch_id,
       email |-> watch.email,
       product_name |-> product.name,
       product_price |-> current_price,
       product_base_price |-> product.base_price,
       retailer |-> product.retailer,
       discount_percent |-> discount_percent(product.base_price, current_price),
       threshold_type |-> watch.threshold_type,
       threshold_value |-> watch.threshold_value,
       threshold_met |-> met,
       cooldown_expired |-> expired,
       should_notify |-> met /\ expired,
       reason |-> IF ~expired THEN "Cooldown active"
                  ELSE IF ~met THEN "Threshold not met"
                  ELSE "Ready to notify"]

\* fault variant of check_watch: the cooldown is reported but does not gate
\* the notification
check_watch_ignores_cooldown(watch_id, watch, current_price, now) ==
  LET product == Product[watch.product_id]
      met == threshold_met(watch, product.base_price, current_price)
      expired == met /\ is_cooldown_expired(watch, now)
  IN  [watch_id |-> watch_id,
       email |-> watch.email,
       product_name |-> product.name,
       product_price |-> current_price,
       product_base_price |-> product.base_price,
       retailer |-> product.retailer,
       discount_percent |-> discount_percent(product.base_price, current_price),
       threshold_type |-> watch.threshold_type,
       threshold_value |-> watch.threshold_value,
       threshold_met |-> met,
       cooldown_expired |-> expired,
       should_notify |-> met,
       reason |-> IF ~met THEN "Threshold not met"
                  ELSE IF ~expired THEN "Cooldown active"
                  ELSE "Ready to notify"]

\* check_watch(watch) at utcnow() = now; current_price is the watched
\* product's price as the session reads it
check_watch(watch_id, watch, current_price, now) ==
  LET product == Product[watch.product_id]
      met == threshold_met(watch, product.base_price, current_price)
      expired == met /\ is_cooldown_expired(watch, now)
  IN  [watch_id |-> watch_id,
       email |-> watch.email,
       product_name |-> product.name,
       product_price |-> current_price,
       product_base_price |-> product.base_price,
       retailer |-> product.retailer,
       discount_percent |-> discount_percent(product.base_price, current_price),
       threshold_type |-> watch.threshold_type,
       threshold_value |-> watch.threshold_value,
       threshold_met |-> met,
       cooldown_expired |-> expired,
       should_notify |-> expired,
       reason |-> IF ~met THEN "Threshold not met"
                  ELSE IF ~expired THEN "Cooldown active"
                  ELSE "Ready to notify"]

\* fault variant of update_product_price: the active sale is ignored
update_product_price_no_sale(current_price, base_price, sale, pct) ==
  <<apply_random_fluctuation(current_price, base_price, pct), FALSE>>

\* update_product_price(product): sale is <<>> or <<the active SaleEvent>>;
\* gives <<new_price, is_sale_event>>
update_product_price(current_price, base_price, sale, pct) ==
  IF sale # <<>>
    THEN <<sale[1].sale_price, TRUE>>
    ELSE <<apply_random_fluctuation(current_price, base_price, pct), FALSE>>

\* get_active_sale(product_id): .first() of a query without ORDER BY, any of
\* the matching rows; {<<>>} when none matches
get_active_sale(product_id, now) ==
  IF ActiveSales(product_id, now) = {} THEN {<<>>}
  ELSE { <<s>> : s \in ActiveSales(product_id, now) }

\* fault variant of AddToGroup: every firing watch opens a group of its own
AddToGroup_per_watch(groups, result) ==
  Append(groups, [key |-> <<result.email, result.product_name>>,
                  triggered |-> <<result>>])

\* fault variant of AddToGroup: a further firing watch replaces the group's
\* list instead of joining it
AddToGroup_replace(groups, result) ==
  LET key == <<result.email, result.product_name>>
      at == { i \in 1..Len(groups) : groups[i].key = key }
  IN  IF at = {}
        THEN Append(groups, [key |-> key, triggered |-> <<result>>])
        ELSE [i \in 1..Len(groups) |->
                IF i \in at
                  THEN [groups[i] EXCEPT !.triggered = <<result>>]
                  ELSE groups[i]]

\* run_price_check, step 2: notifications_to_send[key].append(result); the
\* dict keeps its keys in insertion order
AddToGroup(groups, result) ==
  LET key == <<result.email, result.product_name>>
      at == { i \in 1..Len(groups) : groups[i].key = key }
  IN  IF at = {}
        THEN Append(groups, [key |-> key, triggered |-> <<result>>])
        ELSE [i \in 1..Len(groups) |->
                IF i \in at
                  THEN [groups[i] EXCEPT !.triggered = Append(@, result)]
                  ELSE groups[i]]

\* run_price_check, step 3: the deals list built for one group
BuildDeals(triggered) ==
  [i \in 1..Len(triggered) |->
     [retailer |-> triggered[i].retailer,
      current_price |-> triggered[i].product_price,
      base_price |-> triggered[i].product_base_price,
      savings |-> triggered[i].product_base_price - triggered[i].product_price,
      discount_percent |-> triggered[i].discount_percent]]

\* fault variant of build_multi_retailer_email: the deals keep the order in
\* which the watches were evaluated
build_multi_retailer_email_unsorted(product_name, deals) ==
  [product_name |-> product_name,
   best_price |-> deals[1].current_price,
   deals_sorted |-> deals]

\* build_multi_retailer_email: the deals sorted by price and the subject's price
build_multi_retailer_email(product_name, deals) ==
  LET deals_sorted == SortByPrice(deals)
  IN  [product_name |-> product_name,
       best_price |-> deals_sorted[1].current_price,
       deals_sorted |-> deals_sorted]

\* fault variant of send_multi_retailer_notification: without an API key the
\* call reports failure
send_multi_retailer_notification_no_key_fails(api_key, accepted) ==
  IF ~api_key THEN FALSE ELSE accepted

\* send_multi_retailer_notification: without an API key nothing is sent and
\* the result is True; with one, the result is whether SendGrid accepted the
\* message (a 2xx status) rather than refusing it or raising
send_multi_retailer_notification(api_key, accepted) ==
  IF ~api_key THEN TRUE ELSE accepted

(***************************************************************************)
(* scheduler.py.  The BackgroundScheduler is the set of its jobs; a trigger *)
(* is the IntervalTrigger or the CronTrigger the code builds.               *)
(***************************************************************************)
\* the check_interval_minutes the callers pass: None, or a number of minutes
IntervalInputs == {<<>>, <<5>>, <<60>>}

\* `if check_interval_minutes:` IntervalTrigger(minutes=n), else
\* CronTrigger(hour=8, minute=0)
TriggerFor(check_interval_minutes) ==
  IF check_interval_minutes # <<>> /\ check_interval_minutes[1] # 0
    THEN [kind |-> "interval", minutes |-> check_interval_minutes[1]]
    ELSE [kind |-> "cron", hour |-> 8, minute |-> 0]

\* scheduler.get_job('price_check'): <<>> or <<the job>>
get_job(sched) ==
  IF \E j \in sched[1].jobs : j.id = "price_check"
    THEN <<CHOOSE j \in sched[1].jobs : j.id = "price_check">>
    ELSE <<>>

\* init_scheduler(app, check_interval_minutes): a started scheduler holding
\* the job 'price_check' with the trigger
init_scheduler(check_interval_minutes) ==
  <<[jobs |-> {[id |-> "price_check",
                trigger |-> TriggerFor(check_interval_minutes)]}]>>

\* update_schedule(check_interval_minutes): the global afterwards.  The job is
\* removed; the trigger that is built is used for the printed text only.
\* (remove_job raises JobLookupError when the job is not there.)
update_schedule(sched, check_interval_minutes) ==
  IF sched = <<>> THEN sched
  ELSE IF get_job(sched) = <<>> THEN sched
  ELSE <<[jobs |-> sched[1].jobs \ {get_job(sched)[1]}]>>

\* get_next_run_time() at utcnow() = now: <<>> for None, else <<the job's
\* next_run_time>>; in days, the next fire of either trigger is within a day
get_next_run_time(sched, now) ==
  IF sched = <<>> THEN <<>>
  ELSE IF get_job(sched) = <<>> THEN <<>>
  ELSE <<now + 1>>

(***************************************************************************)
(* State.                                                                  *)
(***************************************************************************)
VARIABLES
  scheduler,       \* scheduler.py's global: <<>> (None) or <<the BackgroundScheduler>>
  clock,           \* datetime.utcnow()
  api_key,         \* whether SENDGRID_API_KEY is set in the environment
  current_price,   \* products.current_price as committed, per product id
  watches,         \* the watches table as committed, per watch id
  run              \* per thread: the locals of its run_price_check call

vars == <<scheduler, clock, api_key, current_price, watches, run>>

\* the locals of a thread that is not in a cycle and has run none
IdleRun ==
  [pc |-> "Idle",
   i_product |-> 1,                               \* update_all_prices loop
   session_price |-> [p \in ProductIds |-> 0],    \* the session's Product objects
   price_summary |-> [total |-> 0, sale_events |-> 0, random_fluctuations |-> 0],
   i_watch |-> 1,                                 \* step 2 loop
   results |-> <<>>,
   notifications_to_send |-> <<>>,
   i_group |-> 1,                                 \* step 3 loop
   i_stamp |-> 1,                                 \* the loop over a sent group
   pending |-> <<>>,                              \* stamps not yet committed
   notifications_sent |-> 0,
   calls |-> <<>>,                                \* the notifier calls made
   summary |-> <<>>,
   \* the exception that ended the call, <<>> when none: <<"engine", product id>>
   \* or <<"data", watch id>>
   raised |-> <<>>,
   \* history: last_notified_at of every watch when the cycle was entered
   before |-> [w \in WatchIds |-> <<>>],
   \* history: the watches whose group's send failed in the thread's previous cycle
   failed_before |-> {},
   \* what the thread's last request to index() rendered: <<>> or
   \* <<[message, message_type]>>
   response |-> <<>>]

Init ==
  /\ scheduler = init_scheduler(<<>>)
  /\ clock = 0
  /\ api_key \in BOOLEAN
  /\ current_price = [p \in ProductIds |-> Product[p].base_price]
  /\ watches = InitialWatches
  /\ run = [t \in Threads |-> IdleRun]

(***************************************************************************)
(* Actions.                                                                *)
(***************************************************************************)
\* time passes
Tick ==
  /\ clock < MaxTime
  /\ clock' = clock + 1
  /\ UNCHANGED <<scheduler, api_key, current_price, watches, run>>

\* run_price_check is entered; update_all_prices loads Product.query.all()
StartCycle(t) ==
  /\ run[t].pc \in {"Idle", "Raised"}
  /\ run' = [run EXCEPT ![t] =
       [IdleRun EXCEPT !.pc = "PricesUpdating",
                       !.session_price = current_price,
                       !.price_summary.total = Len(ProductOrder),
                       !.before = [w \in WatchIds |-> watches[w].last_notified_at],
                       !.failed_before =
                          { run[t].results[i].watch_id :
                              i \in { j \in 1..Len(run[t].results) :
                                        /\ run[t].results[j].should_notify
                                        /\ \E c \in 1..Len(run[t].calls) :
                                             /\ ~run[t].calls[c].success
                                             /\ run[t].calls[c].email =
                                                  run[t].results[j].email
                                             /\ run[t].calls[c].product_name =
                                                  run[t].results[j].product_name } }]]
  /\ UNCHANGED <<scheduler, clock, api_key, current_price, watches>>

\* fault variant of uncommitted: every price is written through as it is set
uncommitted_write_through(committed, session) == session

\* update_all_prices: what the products table holds while the loop has set
\* product.current_price on the session's objects and db.session.commit() has
\* not run yet
uncommitted(committed, session) == committed

\* update_all_prices: one iteration of the loop over the products
UpdateProductPrice(t) ==
  /\ run[t].pc = "PricesUpdating"
  /\ run[t].i_product <= Len(ProductOrder)
  /\ LET p == ProductOrder[run[t].i_product]
     IN  \E sale \in get_active_sale(p, clock) :
         \E flash \in BOOLEAN :
         \E pct \in PercentDraws(flash) :
           LET r == update_product_price(run[t].session_price[p],
                                         Product[p].base_price, sale, pct)
           IN  /\ run' = [run EXCEPT ![t] =
                    [@ EXCEPT !.session_price[p] = r[1],
                              !.price_summary.sale_events =
                                 IF r[2] THEN @ + 1 ELSE @,
                              !.price_summary.random_fluctuations =
                                 IF r[2] THEN @ ELSE @ + 1,
                              !.i_product = @ + 1]]
               /\ current_price' =
                    uncommitted(current_price,
                                [run[t].session_price EXCEPT ![p] = r[1]])
  /\ UNCHANGED <<scheduler, clock, api_key, watches>>

\* update_all_prices: db.session.commit() after the loop; run_price_check
\* then loads Watch.query.all()
CommitPrices(t) ==
  /\ run[t].pc = "PricesUpdating"
  /\ run[t].i_product > Len(ProductOrder)
  /\ current_price' = run[t].session_price
  /\ run' = [run EXCEPT ![t] =
       [@ EXCEPT !.pc = IF Len(WatchOrder) = 0 THEN "Dispatching"
                        ELSE "EvaluatingWatches"]]
  /\ UNCHANGED <<scheduler, clock, api_key, watches>>

\* run_price_check step 2: one iteration of the loop over the watches
CheckWatch(t) ==
  /\ run[t].pc = "EvaluatingWatches"
  /\ watches[WatchOrder[run[t].i_watch]].product_id \in ProductIds
  /\ LET w == WatchOrder[run[t].i_watch]
         result == check_watch(w, watches[w],
                               current_price[watches[w].product_id], clock)
     IN  run' = [run EXCEPT ![t] =
           [@ EXCEPT !.results = Append(@, result),
                     !.notifications_to_send =
                        IF result.should_notify THEN AddToGroup(@, result) ELSE @,
                     !.i_watch = @ + 1,
                     !.pc = IF run[t].i_watch = Len(WatchOrder)
                              THEN "Dispatching" ELSE "EvaluatingWatches"]]
  /\ UNCHANGED <<scheduler, clock, api_key, current_price, watches>>

\* fault variants of after_send: the group is stamped whatever the notifier
\* returned; a failed send ends the loop over the groups
after_send_always_stamp(r, success) ==
  [r EXCEPT !.notifications_sent = IF success THEN @ + 1 ELSE @,
            !.pc = "Committing",
            !.i_stamp = 1]

after_send_abort_on_failure(r, success) ==
  [r EXCEPT !.notifications_sent = IF success THEN @ + 1 ELSE @,
            !.pc = IF success THEN "Committing" ELSE "Dispatching",
            !.i_stamp = 1,
            !.i_group = IF success THEN @ ELSE Len(r.notifications_to_send) + 1]

\* fault variant of after_send: the condition is inverted, a failed send is
\* stamped and a successful one is not
after_send_inverted(r, success) ==
  [r EXCEPT !.notifications_sent = IF success THEN @ + 1 ELSE @,
            !.pc = IF success THEN "Dispatching" ELSE "Committing",
            !.i_stamp = 1,
            !.i_group = IF success THEN @ + 1 ELSE @]

\* fault variant of after_send: every notifier call is counted as sent
after_send_counts_attempts(r, success) ==
  [r EXCEPT !.notifications_sent = @ + 1,
            !.pc = IF success THEN "Committing" ELSE "Dispatching",
            !.i_stamp = 1,
            !.i_group = IF success THEN @ ELSE @ + 1]

\* run_price_check step 3, after the notifier returned for the group at
\* i_group: `if success:` goes on to stamp the group, `else:` to the next group
after_send(r, success) ==
  [r EXCEPT !.notifications_sent = IF success THEN @ + 1 ELSE @,
            !.pc = IF success THEN "Committing" ELSE "Dispatching",
            !.i_stamp = 1,
            !.i_group = IF success THEN @ ELSE @ + 1]

\* run_price_check step 3: the notifier is called for the next group
SendNotification(t) ==
  /\ run[t].pc = "Dispatching"
  /\ run[t].i_group <= Len(run[t].notifications_to_send)
  /\ LET g == run[t].notifications_to_send[run[t].i_group]
         deals == BuildDeals(g.triggered)
     IN  \E accepted \in BOOLEAN :
           LET success == send_multi_retailer_notification(api_key, accepted)
               call == [email |-> g.key[1],
                        product_name |-> g.key[2],
                        deals |-> deals,
                        threshold_type |-> g.triggered[1].threshold_type,
                        threshold_value |-> g.triggered[1].threshold_value,
                        message |-> IF api_key
                                      THEN <<build_multi_retailer_email(g.key[2], deals)>>
                                      ELSE <<>>,
                        success |-> success]
           IN  run' = [run EXCEPT ![t] =
                 after_send([@ EXCEPT !.calls = Append(@, call)], success)]
  /\ UNCHANGED <<scheduler, clock, api_key, current_price, watches>>

\* after a successful send: r['_watch_ref'].last_notified_at = utcnow() for
\* the next watch of the group (in the session, not yet committed)
StampWatch(t) ==
  /\ run[t].pc = "Committing"
  /\ LET g == run[t].notifications_to_send[run[t].i_group]
     IN  /\ run[t].i_stamp <= Len(g.triggered)
         /\ run' = [run EXCEPT ![t] =
              [@ EXCEPT !.pending =
                          Append(@, <<g.triggered[run[t].i_stamp].watch_id, clock>>),
                        !.i_stamp = @ + 1]]
  /\ UNCHANGED <<scheduler, clock, api_key, current_price, watches>>

\* fault variant of apply_stamps: only the first stamp of the group is written
apply_stamps_first_only(table, pending) ==
  [w \in WatchIds |->
     IF pending # <<>> /\ pending[1][1] = w
       THEN [table[w] EXCEPT !.last_notified_at = <<pending[1][2]>>]
       ELSE table[w]]

\* fault variant of apply_stamps: the stamp goes to every watch of the
\* recipient, whether it was in the sent group or not
apply_stamps_whole_email(table, pending) ==
  [w \in WatchIds |->
     LET at == { i \in 1..Len(pending) : table[pending[i][1]].email = table[w].email }
     IN  IF at = {} THEN table[w]
         ELSE [table[w] EXCEPT !.last_notified_at =
                 <<pending[CHOOSE i \in at : \A j \in at : j <= i][2]>>]]

\* fault variant of apply_stamps: the commit writes the whole table and the
\* watches outside the sent group lose their stamp
apply_stamps_clears_others(table, pending) ==
  [w \in WatchIds |->
     LET at == { i \in 1..Len(pending) : pending[i][1] = w }
     IN  IF at = {} THEN [table[w] EXCEPT !.last_notified_at = <<>>]
         ELSE [table[w] EXCEPT !.last_notified_at =
                 <<pending[CHOOSE i \in at : \A j \in at : j <= i][2]>>]]

\* the watches table once the session's stamps (<<watch id, time>> in the
\* order they were set) are committed
apply_stamps(table, pending) ==
  [w \in WatchIds |->
     LET at == { i \in 1..Len(pending) : pending[i][1] = w }
     IN  IF at = {} THEN table[w]
         ELSE [table[w] EXCEPT !.last_notified_at =
                 <<pending[CHOOSE i \in at : \A j \in at : j <= i][2]>>]]

\* after a successful send: db.session.commit() of the group's stamps
CommitGroup(t) ==
  /\ run[t].pc = "Committing"
  /\ run[t].i_stamp > Len(run[t].notifications_to_send[run[t].i_group].triggered)
  /\ watches' = apply_stamps(watches, run[t].pending)
  /\ run' = [run EXCEPT ![t] =
       [@ EXCEPT !.pending = <<>>,
                 !.i_group = @ + 1,
                 !.pc = "Dispatching"]]
  /\ UNCHANGED <<scheduler, clock, api_key, current_price>>

\* run_price_check: the summary is built and returned
FinishCycle(t) ==
  /\ run[t].pc = "Dispatching"
  /\ run[t].i_group > Len(run[t].notifications_to_send)
  /\ run' = [run EXCEPT ![t] =
       [@ EXCEPT !.pc = "Idle",
                 !.session_price = IdleRun.session_price,
                 !.summary =
                    <<[timestamp |-> clock,
                       price_updates |-> run[t].price_summary,
                       watches_checked |-> Len(WatchOrder),
                       thresholds_met |->
                          Cardinality({ i \in 1..Len(run[t].results) :
                                          run[t].results[i].threshold_met }),
                       notifications_sent |-> run[t].notifications_sent,
                       details |-> run[t].results]>>]]
  /\ UNCHANGED <<scheduler, clock, api_key, current_price, watches>>

\* one step of a price-check cycle run by thread t
Cycle(t) ==
  \/ StartCycle(t)
  \/ UpdateProductPrice(t)
  \/ CommitPrices(t)
  \/ CheckWatch(t)
  \/ SendNotification(t)
  \/ StampWatch(t)
  \/ CommitGroup(t)
  \/ FinishCycle(t)

\* the cycles of the scheduler's job, one after the other, as time passes
Next ==
  \/ Tick
  \/ Cycle("scheduler")

Spec == Init /\ [][Next]_vars

(***************************************************************************)
(* check_single_product, on any store the operations of app.py can leave.  *)
(***************************************************************************)
\* the largest price simulate_price_drop is given here
MaxPrice == 23

\* (threshold_type, threshold_value) as the form handler stores them: it
\* checks that threshold_type is not empty, not that it is 'percent' or
\* 'absolute'
ThresholdInputs == { <<"percent", 200>>, <<"absolute", 16>>, <<"dollars", 16>> }

\* fault variant of check_single_product: the filter on product_id is lost
check_single_product_all_watches(product_id, table, prices, now) ==
  [i \in 1..Len(WatchOrder) |->
     check_watch(WatchOrder[i], table[WatchOrder[i]],
                 prices[table[WatchOrder[i]].product_id], now)]

\* check_single_product(product_id): check_watch for every watch on the
\* product, in primary-key order
check_single_product(product_id, table, prices, now) ==
  LET RECURSIVE Collect(_)
      Collect(i) ==
        IF i > Len(WatchOrder) THEN <<>>
        ELSE IF table[WatchOrder[i]].product_id = product_id
          THEN <<check_watch(WatchOrder[i], table[WatchOrder[i]],
                             prices[product_id], now)>> \o Collect(i + 1)
          ELSE Collect(i + 1)
  IN  Collect(1)

\* GET-style call of check_single_product by a request thread
CheckSingleProduct(t, product_id) ==
  /\ run[t].pc = "Idle"
  /\ run' = [run EXCEPT ![t] =
       [IdleRun EXCEPT !.results =
          check_single_product(product_id, watches, current_price, clock)]]
  /\ UNCHANGED <<scheduler, clock, api_key, current_price, watches>>

\* a store after registrations (one threshold per email and product name),
\* manual price settings and earlier notifications
InitCheck ==
  /\ scheduler = init_scheduler(<<>>)
  /\ clock = 0
  /\ api_key = FALSE
  /\ \E price \in 0..MaxPrice : \E other \in {15, 20} :
       current_price = [p \in ProductIds |-> IF p = 1 THEN price ELSE other]
  /\ \E alice \in ThresholdInputs : \E bob \in ThresholdInputs :
     \E stamped \in SUBSET {1, 3} :
       watches =
         [w \in WatchIds |->
            [InitialWatches[w] EXCEPT
               !.threshold_type = IF w = 3 THEN bob[1] ELSE alice[1],
               !.threshold_value = IF w = 3 THEN bob[2] ELSE alice[2],
               !.last_notified_at = IF w \in stamped THEN <<0>> ELSE <<>>]]
  /\ run = [t \in Threads |-> IdleRun]

NextCheck ==
  \/ Tick
  \/ \E p \in ProductIds : CheckSingleProduct("request", p)

SpecCheck == InitCheck /\ [][NextCheck]_vars

(***************************************************************************)
(* Exceptions.  run_price_check, update_all_prices, update_product_price   *)
(* and check_watch have no try/except: an exception raised inside a cycle  *)
(* leaves run_price_check through its caller.                              *)
(***************************************************************************)
\* update_product_price raises for the product at i_product (its
\* get_active_sale query, or the arithmetic on its row, fails): the exception
\* passes through update_all_prices before its commit and through
\* run_price_check; the thread's session goes with its uncommitted prices
UpdateProductPriceRaises(t) ==
  /\ run[t].pc = "PricesUpdating"
  /\ run[t].i_product <= Len(ProductOrder)
  /\ run' = [run EXCEPT ![t] =
       [@ EXCEPT !.pc = "Raised",
                 !.raised = <<"engine", ProductOrder[run[t].i_product]>>,
                 !.session_price = IdleRun.session_price]]
  /\ UNCHANGED <<scheduler, clock, api_key, current_price, watches>>

\* check_watch on a watch whose product row does not exist: watch.product is
\* None and `product.name` raises AttributeError, which leaves run_price_check
CheckWatchRaises(t) ==
  /\ run[t].pc = "EvaluatingWatches"
  /\ watches[WatchOrder[run[t].i_watch]].product_id \notin ProductIds
  /\ run' = [run EXCEPT ![t] =
       [@ EXCEPT !.pc = "Raised",
                 !.raised = <<"data", WatchOrder[run[t].i_watch]>>,
                 !.session_price = IdleRun.session_price]]
  /\ UNCHANGED <<scheduler, clock, api_key, current_price, watches>>

\* a store on a day with an active sale on product 1, in which the product
\* rows of some watches are gone: watches.product_id is a foreign key without
\* ON DELETE, which SQLite does not enforce (no PRAGMA foreign_keys), and
\* product_id 3 has no row
InitFault ==
  /\ scheduler = init_scheduler(<<>>)
  /\ clock = 1
  /\ api_key \in BOOLEAN
  /\ current_price = [p \in ProductIds |-> Product[p].base_price]
  /\ \E orphans \in SUBSET {2, 3} :
       watches = [w \in WatchIds |->
                    [InitialWatches[w] EXCEPT
                       !.product_id = IF w \in orphans THEN 3 ELSE @]]
  /\ run = [t \in Threads |-> IdleRun]

\* the scheduler's cycles, any of which may meet an exception
NextFault ==
  \/ Cycle("scheduler")
  \/ UpdateProductPriceRaises("scheduler")
  \/ CheckWatchRaises("scheduler")

SpecFault == InitFault /\ [][NextFault]_vars

(***************************************************************************)
(* Two triggers.  The APScheduler job runs run_price_check in a worker     *)
(* thread (run_scheduled_check) and POST /admin/run-check runs it in the   *)
(* request's thread (trigger_check); neither takes a lock, and each thread *)
(* has its own session on the one database.                                *)
(***************************************************************************)
\* a day with an active sale on product 1, nothing notified yet
InitTriggers ==
  /\ scheduler = init_scheduler(<<>>)
  /\ clock = 1
  /\ api_key \in BOOLEAN
  /\ current_price = [p \in ProductIds |-> Product[p].base_price]
  /\ watches = InitialWatches
  /\ run = [t \in Threads |-> IdleRun]

\* each trigger fires once: the steps of the two cycles, interleaved in any way
NextTriggers ==
  \E t \in Threads :
    \/ StartCycle(t) /\ run[t].summary = <<>>
    \/ UpdateProductPrice(t)
    \/ CommitPrices(t)
    \/ CheckWatch(t)
    \/ SendNotification(t)
    \/ StampWatch(t)
    \/ CommitGroup(t)
    \/ FinishCycle(t)

SpecTriggers == InitTriggers /\ [][NextTriggers]_vars

(***************************************************************************)
(* Manual prices.  POST /admin/set-price/<product_id>/<price> writes any    *)
(* price the URL carries into a product row and commits; the requests are   *)
(* taken between the scheduler's cycles.                                    *)
(***************************************************************************)
\* the prices the set-price requests carry: far below the floor, above every
\* base price
SetPriceInputs == {0, MaxPrice}

\* simulate_price_drop(product_id, target_price)
SimulatePriceDrop(product_id, target_price) ==
  /\ run["scheduler"].pc = "Idle"
  /\ product_id \in ProductIds
  /\ current_price' = [current_price EXCEPT ![product_id] = target_price]
  /\ UNCHANGED <<scheduler, clock, api_key, watches, run>>

\* a day without any sale event, every product at its base price
InitAdmin ==
  /\ scheduler = init_scheduler(<<>>)
  /\ clock = 0
  /\ api_key = FALSE
  /\ current_price = [p \in ProductIds |-> Product[p].base_price]
  /\ watches = InitialWatches
  /\ run = [t \in Threads |-> IdleRun]

NextAdmin ==
  \/ Cycle("scheduler")
  \/ \E p \in ProductIds : \E v \in SetPriceInputs : SimulatePriceDrop(p, v)

SpecAdmin == InitAdmin /\ [][NextAdmin]_vars

(***************************************************************************)
(* Back-to-back cycles on a sale day.  On day 4 product 2 (base price 0.20) *)
(* has an active sale event at 0.15, three quarters of its base price, and  *)
(* alice's watch 2 on it (percent, 20) has never been notified; the cycles  *)
(* follow each other without time passing.                                  *)
(***************************************************************************)
InitScenario ==
  /\ scheduler = init_scheduler(<<>>)
  /\ clock = 4
  /\ api_key \in BOOLEAN
  /\ current_price = [p \in ProductIds |-> Product[p].base_price]
  /\ watches = InitialWatches
  /\ run = [t \in Threads |-> IdleRun]

NextScenario == Cycle("scheduler")

SpecScenario == InitScenario /\ [][NextScenario]_vars

(***************************************************************************)
(* Registration and seeding.  POST / (index) registers one recipient for    *)
(* one product name; seed_test_watch creates the test watch.  Here the      *)
(* watches table starts empty and grows: it is the sequence of its rows in  *)
(* primary-key order, a row's id being its position.  Each request runs in  *)
(* its own session and commits once, so it acts on the table in one step.   *)
(***************************************************************************)
\* str.strip().lower() on the addresses the forms carry
strip_lower(email) ==
  CASE email = "Alice" -> "alice"
    [] email = " " -> ""
    [] OTHER -> email

\* float(threshold_value): <<x>> for text that spells the number x (in the
\* units of the model: tenths of a percent, cents), <<>> for text on which
\* float() raises ValueError
float(text) ==
  CASE text = "20" -> <<200>>
    [] text = "0.16" -> <<16>>
    [] text = "0.12" -> <<12>>
    [] OTHER -> <<>>

\* the submitted forms: three spellings of two recipients, the product name
\* of the catalog and one of no product, three threshold types, and forms
\* with a blank field or a threshold that is not a number
Forms ==
  { [email |-> e, product_name |-> "A", threshold_type |-> th[1], threshold_value |-> th[2]] :
      e \in {"alice", "Alice", "bob"},
      th \in { <<"percent", "20">>, <<"absolute", "0.16">>, <<"dollars", "0.16">> } }
  \cup
  { [email |-> e, product_name |-> n, threshold_type |-> ty, threshold_value |-> v] :
      e \in {"alice", " "}, n \in {"A", "B", ""}, ty \in {"percent", ""},
      v \in {"20", "abc", ""} }

\* Product.query.filter_by(name=product_name).all(), in primary-key order
ProductsNamed(product_name) ==
  SelectSeq(ProductOrder, LAMBDA p : Product[p].name = product_name)

\* Watch.query.filter_by(email=email, product_id=product_id): the matching rows
WatchesOf(table, email, product_id) ==
  { i \in 1..Len(table) :
      table[i].email = email /\ table[i].product_id = product_id }

\* fault variant of upsert_watch: a watch is created whether one exists or not
upsert_watch_always_creates(table, email, product_id, threshold_type, threshold_value) ==
  Append(table, [email |-> email, product_id |-> product_id,
                 threshold_type |-> threshold_type,
                 threshold_value |-> threshold_value,
                 last_notified_at |-> <<>>])

\* fault variant of upsert_watch: an existing watch keeps its threshold
upsert_watch_keeps_existing(table, email, product_id, threshold_type, threshold_value) ==
  IF WatchesOf(table, email, product_id) # {}
    THEN table
    ELSE Append(table, [email |-> email, product_id |-> product_id,
                        threshold_type |-> threshold_type,
                        threshold_value |-> threshold_value,
                        last_notified_at |-> <<>>])

\* fault variant of upsert_watch: the existing watch is replaced by a fresh
\* one, which has never been notified
upsert_watch_resets_stamp(table, email, product_id, threshold_type, threshold_value) ==
  LET existing == WatchesOf(table, email, product_id)
  IN  IF existing # {}
        THEN LET w == CHOOSE i \in existing : \A j \in existing : i <= j
             IN  [table EXCEPT ![w].threshold_type = threshold_type,
                               ![w].threshold_value = threshold_value,
                               ![w].last_notified_at = <<>>]
        ELSE Append(table, [email |-> email, product_id |-> product_id,
                            threshold_type |-> threshold_type,
                            threshold_value |-> threshold_value,
                            last_notified_at |-> <<>>])

\* index(), the body of the loop over products_to_watch: the existing watch
\* of (email, product) gets the submitted threshold, or a new watch is added
upsert_watch(table, email, product_id, threshold_type, threshold_value) ==
  LET existing == WatchesOf(table, email, product_id)
  IN  IF existing # {}
        THEN LET w == CHOOSE i \in existing : \A j \in existing : i <= j
             IN  [table EXCEPT ![w].threshold_type = threshold_type,
                               ![w].threshold_value = threshold_value]
        ELSE Append(table, [email |-> email, product_id |-> product_id,
                            threshold_type |-> threshold_type,
                            threshold_value |-> threshold_value,
                            last_notified_at |-> <<>>])

\* fault variant of upsert_all: only the first retailer's product is watched
RECURSIVE upsert_all_first_retailer(_, _, _, _, _)
upsert_all_first_retailer(table, email, products, threshold_type, threshold_value) ==
  IF products = <<>> THEN table
  ELSE upsert_watch(table, email, Head(products), threshold_type, threshold_value)

\* index(), the loop over products_to_watch
RECURSIVE upsert_all(_, _, _, _, _)
upsert_all(table, email, products, threshold_type, threshold_value) ==
  IF products = <<>> THEN table
  ELSE upsert_all(upsert_watch(table, email, Head(products),
                               threshold_type, threshold_value),
                  email, Tail(products), threshold_type, threshold_value)

\* fault variant of index: a threshold that is not a number is taken as 0
index_defaults_threshold(table, form) ==
  LET email == strip_lower(form.email)
      product_name == form.product_name
  IN  IF "" \in {email, product_name, form.threshold_type, form.threshold_value}
        THEN [table |-> table, message |-> "Please fill in all fields.",
              message_type |-> "error"]
      ELSE IF ProductsNamed(product_name) = <<>>
        THEN [table |-> table, message |-> "Invalid product selected.",
              message_type |-> "error"]
      ELSE [table |-> upsert_all(table, email, ProductsNamed(product_name),
                                 form.threshold_type,
                                 IF float(form.threshold_value) = <<>> THEN 0
                                 ELSE float(form.threshold_value)[1]),
            message |-> "Alert created", message_type |-> "success"]

\* index() on a POST: the table it commits and the message it renders
index(table, form) ==
  LET email == strip_lower(form.email)
      product_name == form.product_name
  IN  IF "" \in {email, product_name, form.threshold_type, form.threshold_value}
        THEN [table |-> table, message |-> "Please fill in all fields.",
              message_type |-> "error"]
      ELSE IF float(form.threshold_value) = <<>>
        THEN [table |-> table, message |-> "Invalid threshold value.",
              message_type |-> "error"]
      ELSE IF ProductsNamed(product_name) = <<>>
        THEN [table |-> table, message |-> "Invalid product selected.",
              message_type |-> "error"]
      ELSE [table |-> upsert_all(table, email, ProductsNamed(product_name),
                                 form.threshold_type,
                                 float(form.threshold_value)[1]),
            message |-> "Alert created", message_type |-> "success"]

\* POST / with the form's fields
Register(form) ==
  /\ run["request"].pc = "Idle"
  /\ watches' = index(watches, form).table
  /\ run' = [run EXCEPT !["request"].response =
       <<[form |-> form,
          message |-> index(watches, form).message,
          message_type |-> index(watches, form).message_type]>>]
  /\ UNCHANGED <<scheduler, clock, api_key, current_price>>

\* seed_test_watch(email): a watch at 20 percent on one retailer's product
\* (the catalog's Walmart row stands for "Sony WH-1000XM5" at Walmart) unless
\* the recipient already has one on it
seed_test_watch(table, email) ==
  LET found == SelectSeq(ProductOrder, LAMBDA p : /\ Product[p].name = "A"
                                                  /\ Product[p].retailer = "Walmart")
  IN  IF found = <<>> THEN table
      ELSE IF WatchesOf(table, email, found[1]) # {} THEN table
      ELSE Append(table, [email |-> email, product_id |-> found[1],
                          threshold_type |-> "percent", threshold_value |-> 200,
                          last_notified_at |-> <<>>])

\* POST /admin/seed?email=...: seed_all(test_email) on a seeded catalog
SeedTestWatch(email) ==
  /\ run["request"].pc = "Idle"
  /\ watches' = seed_test_watch(watches, email)
  /\ run' = [run EXCEPT !["request"].response = <<>>]
  /\ UNCHANGED <<scheduler, clock, api_key, current_price>>

\* the seeded catalog, no watch yet
InitRegister ==
  /\ scheduler = init_scheduler(<<>>)
  /\ clock = 0
  /\ api_key = FALSE
  /\ current_price = [p \in ProductIds |-> Product[p].base_price]
  /\ watches = <<>>
  /\ run = [t \in Threads |-> IdleRun]

NextRegister ==
  \/ \E form \in Forms : Register(form)
  \/ \E email \in {"alice", "Alice"} : SeedTestWatch(email)

SpecRegister == InitRegister /\ [][NextRegister]_vars

(***************************************************************************)
(* Rescheduling.  The scheduler's job starts the cycles; update_schedule    *)
(* can be called at any time from another thread.                           *)
(***************************************************************************)
\* the trigger of job 'price_check' fires: run_scheduled_check
ScheduledStart ==
  /\ scheduler # <<>>
  /\ get_job(scheduler) # <<>>
  /\ StartCycle("scheduler")

\* update_schedule(check_interval_minutes)
UpdateSchedule(check_interval_minutes) ==
  /\ scheduler' = update_schedule(scheduler, check_interval_minutes)
  /\ run' = [run EXCEPT !["request"].raised =
       IF scheduler # <<>> /\ get_job(scheduler) = <<>>
         THEN <<"JobLookupError", "price_check">> ELSE <<>>]
  /\ UNCHANGED <<clock, api_key, current_price, watches>>

\* the app has started with ENABLE_SCHEDULER and some CHECK_INTERVAL_MINUTES
InitSchedule ==
  /\ scheduler \in { init_scheduler(n) : n \in IntervalInputs }
  /\ clock = 0
  /\ api_key = FALSE
  /\ current_price = [p \in ProductIds |-> Product[p].base_price]
  /\ watches = InitialWatches
  /\ run = [t \in Threads |-> IdleRun]

NextSchedule ==
  \/ ScheduledStart
  \/ UpdateProductPrice("scheduler")
  \/ CommitPrices("scheduler")
  \/ CheckWatch("scheduler")
  \/ SendNotification("scheduler")
  \/ StampWatch("scheduler")
  \/ CommitGroup("scheduler")
  \/ FinishCycle("scheduler")
  \/ \E n \in IntervalInputs : UpdateSchedule(n)

SpecSchedule == InitSchedule /\ [][NextSchedule]_vars

(***************************************************************************)
(* Cycles and repeated registrations.  alice, who has a watch on every      *)
(* retailer's row of "A", registers again between the scheduler's cycles,   *)
(* as time passes; her registrations find all her watches, so the table     *)
(* keeps its rows.                                                          *)
(***************************************************************************)
\* alice's repeated forms: her first threshold, another one, and a form
\* that is rejected
RepeatedForms ==
  { [email |-> "alice", product_name |-> "A", threshold_type |-> "percent",
     threshold_value |-> "20"],
    [email |-> "Alice", product_name |-> "A", threshold_type |-> "absolute",
     threshold_value |-> "0.12"],
    [email |-> "alice", product_name |-> "A", threshold_type |-> "absolute",
     threshold_value |-> "abc"] }

\* POST / between two cycles
RegisterBetweenCycles(form) ==
  /\ run["scheduler"].pc = "Idle"
  /\ Register(form)

\* nothing notified yet, no API key configured
InitRepeated ==
  /\ scheduler = init_scheduler(<<>>)
  /\ clock = 0
  /\ api_key = FALSE
  /\ current_price = [p \in ProductIds |-> Product[p].base_price]
  /\ watches = InitialWatches
  /\ run = [t \in Threads |-> IdleRun]

NextRepeated ==
  \/ Tick
  \/ Cycle("scheduler")
  \/ \E form \in RepeatedForms : RegisterBetweenCycles(form)

SpecRepeated == InitRepeated /\ [][NextRepeated]_vars

(***************************************************************************)
(* Random walk only.  On day 0 no sale event is active and nobody calls     *)
(* set-price: every price is the seeded base price moved by                 *)
(* apply_random_fluctuation, cycle after cycle.                             *)
(***************************************************************************)
InitWalk ==
  /\ scheduler = init_scheduler(<<>>)
  /\ clock = 0
  /\ api_key \in BOOLEAN
  /\ current_price = [p \in ProductIds |-> Product[p].base_price]
  /\ watches = InitialWatches
  /\ run = [t \in Threads |-> IdleRun]

NextWalk == Cycle("scheduler")

SpecWalk == InitWalk /\ [][NextWalk]_vars

(***************************************************************************)
(* The claims.                                                             *)
(***************************************************************************)
\* the last element of a non-empty sequence
Last(s) == s[Len(s)]

\* a step in which thread t's update_all_prices loop handles product p
UpdatesProduct(t, p) ==
  /\ run[t].pc = "PricesUpdating"
  /\ run[t].i_product <= Len(ProductOrder)
  /\ ProductOrder[run[t].i_product] = p
  /\ run'[t].i_product = run[t].i_product + 1

\* C1 (price bounds): in every state reached by price-check cycles, every
\* product's committed price satisfies 0.5 * base_price <= current_price <=
\* base_price.
C1_PriceBounds ==
  \A p \in ProductIds :
    /\ 2 * current_price[p] >= Product[p].base_price
    /\ current_price[p] <= Product[p].base_price

\* C2 (sale precedence): whenever update_product_price handles a product for
\* which some sale event has start_date <= now <= end_date, the product's new
\* price is the sale_price of one of those events and the update is counted
\* as sale-driven, whatever percent change is drawn.
C2_SalePrecedence ==
  [][\A t \in Threads : \A p \in ProductIds :
       (UpdatesProduct(t, p) /\ ActiveSales(p, clock) # {}) =>
         /\ run'[t].session_price[p] \in
              { s.sale_price : s \in ActiveSales(p, clock) }
         /\ run'[t].price_summary.sale_events =
              run[t].price_summary.sale_events + 1
         /\ run'[t].price_summary.random_fluctuations =
              run[t].price_summary.random_fluctuations]_vars

\* C2 witness: the cycle has committed the prices on a day on which product 1
\* has an active sale; product 1 carries that sale's price (which no random
\* walk from its previous price gives) and was counted as sale-driven.
C2_Witness ==
  /\ run["scheduler"].pc = "EvaluatingWatches"
  /\ clock = 1
  /\ current_price[1] = 15
  /\ run["scheduler"].price_summary.sale_events = 1
  /\ run["scheduler"].price_summary.random_fluctuations = 1

\* the grouping key of a diagnostic or of a notifier call
Key(r) == <<r.email, r.product_name>>

\* thread t has returned from a cycle
Finished(t) == run[t].pc = "Idle" /\ run[t].summary # <<>>

\* the diagnostics of thread t's cycle that ask for a notification
Firing(t) ==
  { i \in 1..Len(run[t].results) : run[t].results[i].should_notify }

\* the watches of thread t's cycle that fired under grouping key k
Members(t, k) ==
  { run[t].results[i].watch_id : i \in { j \in Firing(t) : Key(run[t].results[j]) = k } }

\* the notifier calls of thread t's cycle made for grouping key k
CallsFor(t, k) ==
  { i \in 1..Len(run[t].calls) : Key(run[t].calls[i]) = k }

\* a step in which thread t's step 2 loop handles watch w
ChecksWatch(t, w) ==
  /\ run[t].pc = "EvaluatingWatches"
  /\ WatchOrder[run[t].i_watch] = w
  /\ run'[t].i_watch = run[t].i_watch + 1

\* C3 (cooldown monotonicity): a watch stamped at time T is not selected for
\* notification by any check made before T + 3 days (its should_notify is
\* false and it joins no group), and its stamp is only ever replaced by one
\* at least 3 days later.
C3_CooldownMonotone ==
  [][\A t \in Threads : \A w \in WatchIds :
       /\ ( /\ ChecksWatch(t, w)
            /\ watches[w].last_notified_at # <<>>
            /\ clock < watches[w].last_notified_at[1] + 3 )
          => /\ ~Last(run'[t].results).should_notify
             /\ run'[t].notifications_to_send = run[t].notifications_to_send
       /\ ( /\ watches[w].last_notified_at # <<>>
            /\ watches'[w].last_notified_at # watches[w].last_notified_at )
          => /\ watches'[w].last_notified_at # <<>>
             /\ watches'[w].last_notified_at[1] >= watches[w].last_notified_at[1] + 3
    ]_vars

\* C3 witness: a cycle has checked a watch that was stamped less than 3 days
\* ago and whose threshold is met, and has not selected it.
C3_Witness ==
  \E i \in 1..Len(run["scheduler"].results) :
    LET r == run["scheduler"].results[i]
    IN  /\ r.threshold_met
        /\ ~r.should_notify
        /\ run["scheduler"].before[r.watch_id] # <<>>
        /\ clock < run["scheduler"].before[r.watch_id][1] + 3
        /\ Finished("scheduler")

\* C4 (one call per group): in a cycle the notifier is called at most once
\* per (email, product name), only for pairs that have a watch with
\* should_notify, and by the end of the cycle exactly once for each such pair.
C4_OneCallPerGroup ==
  \A t \in Threads :
    \A k \in { Key(run[t].results[i]) : i \in 1..Len(run[t].results) }
             \cup { Key(run[t].calls[i]) : i \in 1..Len(run[t].calls) } :
      /\ Cardinality(CallsFor(t, k)) <= 1
      /\ CallsFor(t, k) # {} => Members(t, k) # {}
      /\ (Finished(t) /\ Members(t, k) # {}) => Cardinality(CallsFor(t, k)) = 1

\* C4 witness: a finished cycle in which both of alice's watches on "A" (two
\* retailers) fired and one call carried both deals.
C4_Witness ==
  /\ Finished("scheduler")
  /\ Members("scheduler", <<"alice", "A">>) = {1, 2}
  /\ \E i \in 1..Len(run["scheduler"].calls) :
       /\ Key(run["scheduler"].calls[i]) = <<"alice", "A">>
       /\ Len(run["scheduler"].calls[i].deals) = 2

\* thread t's step in which the notifier returns failure for a group
SendFails(t) ==
  /\ Len(run'[t].calls) = Len(run[t].calls) + 1
  /\ ~Last(run'[t].calls).success

\* C5 (failure leaves the group unstamped): once the notifier has returned
\* failure for a group, every watch of that group keeps, to the end of the
\* cycle, the last_notified_at it had when the cycle began; the failing call
\* changes no watch and the cycle goes on with the next group.
C5_FailureLeavesUnstamped ==
  /\ [](\A t \in Threads : \A i \in 1..Len(run[t].calls) :
          ~run[t].calls[i].success =>
            \A w \in Members(t, Key(run[t].calls[i])) :
              watches[w].last_notified_at = run[t].before[w])
  /\ [][\A t \in Threads :
          SendFails(t) =>
            /\ watches' = watches
            /\ run'[t].pending = <<>>
            /\ run'[t].pc = "Dispatching"
            /\ run'[t].i_group = run[t].i_group + 1]_vars

\* C5 witness: a finished cycle whose send failed for alice's group of two
\* watches, one of them stamped in an earlier cycle.
C5_Witness ==
  /\ Finished("scheduler")
  /\ \E i \in 1..Len(run["scheduler"].calls) :
       /\ ~run["scheduler"].calls[i].success
       /\ Members("scheduler", Key(run["scheduler"].calls[i])) = {1, 2}
  /\ watches[1].last_notified_at # <<>>
  /\ watches[2].last_notified_at = <<>>

\* watch w carries a stamp set during thread t's cycle
StampedIn(t, w) ==
  /\ watches[w].last_notified_at # <<>>
  /\ watches[w].last_notified_at # run[t].before[w]

\* C6 (failure does not block other groups): at the end of a cycle every
\* group has been sent exactly once, whichever sends failed, and every watch
\* of every group whose send succeeded is stamped.
C6_FailureDoesNotBlock ==
  \A t \in Threads :
    Finished(t) =>
      /\ \A g \in 1..Len(run[t].notifications_to_send) :
           Cardinality(CallsFor(t, run[t].notifications_to_send[g].key)) = 1
      /\ \A i \in 1..Len(run[t].calls) :
           run[t].calls[i].success =>
             \A w \in Members(t, Key(run[t].calls[i])) : StampedIn(t, w)

\* C6 witness: a finished cycle with two groups; the first send failed, the
\* second succeeded and its watch is stamped.
C6_Witness ==
  /\ Finished("scheduler")
  /\ Len(run["scheduler"].calls) = 2
  /\ ~run["scheduler"].calls[1].success
  /\ run["scheduler"].calls[2].success
  /\ Key(run["scheduler"].calls[2]) = <<"bob", "A">>
  /\ StampedIn("scheduler", 3)
  /\ ~StampedIn("scheduler", 1)

C8_CooldownGate ==
  [][\A t \in Threads : \A w \in WatchIds :
       (ChecksWatch(t, w) /\ Last(run'[t].results).threshold_met) =>
         ( Last(run'[t].results).cooldown_expired
           <=> \/ watches[w].last_notified_at = <<>>
               \/ clock >= watches[w].last_notified_at[1] + 3 )]_vars

\* C8 witness: a watch stamped exactly 3 days before the check was found
\* with its cooldown expired.
C8_Witness ==
  /\ run["scheduler"].pc \in {"EvaluatingWatches", "Dispatching"}
  /\ run["scheduler"].results # <<>>
  /\ Last(run["scheduler"].results).cooldown_expired
  /\ watches[Last(run["scheduler"].results).watch_id].last_notified_at
       = <<clock - 3>>

\* C9 (threshold evaluator): in every diagnostic, threshold_met is true
\* exactly when (threshold_type = percent and discount_percent >=
\* threshold_value) or (threshold_type = absolute and current_price <=
\* threshold_value).
C9_ThresholdEvaluator ==
  \A t \in Threads : \A i \in 1..Len(run[t].results) :
    LET r == run[t].results[i]
    IN  r.threshold_met
          <=> \/ r.threshold_type = "percent"
                   /\ r.discount_percent >= r.threshold_value
              \/ r.threshold_type = "absolute"
                   /\ r.product_price <= r.threshold_value

\* C10 (never-notified): whenever a cycle checks a watch whose
\* last_notified_at is null and whose threshold is met, it records
\* cooldown_expired and should_notify as true and appends the diagnostic to
\* the group of the watch's (email, product name).
C10_NeverNotified ==
  [][\A t \in Threads : \A w \in WatchIds :
       ( /\ ChecksWatch(t, w)
         /\ watches[w].last_notified_at = <<>>
         /\ threshold_met(watches[w], Product[watches[w].product_id].base_price,
                          current_price[watches[w].product_id]) ) =>
         LET r == Last(run'[t].results)
         IN  /\ r.watch_id = w
             /\ r.threshold_met /\ r.cooldown_expired /\ r.should_notify
             /\ \E g \in 1..Len(run'[t].notifications_to_send) :
                  /\ run'[t].notifications_to_send[g].key =
                       <<watches[w].email, Product[watches[w].product_id].name>>
                  /\ Last(run'[t].notifications_to_send[g].triggered) = r]_vars

\* C10 witness: a cycle has just checked a never-notified watch whose
\* threshold is met, and has put it into a group.
C10_Witness ==
  /\ run["scheduler"].pc \in {"EvaluatingWatches", "Dispatching"}
  /\ run["scheduler"].calls = <<>>
  /\ run["scheduler"].results # <<>>
  /\ LET r == Last(run["scheduler"].results)
     IN  /\ watches[r.watch_id].last_notified_at = <<>>
         /\ r.threshold_met /\ r.should_notify
         /\ r.watch_id \in Members("scheduler", Key(r))

\* C11 (retry after a failed send): a watch whose group's send failed in a
\* thread's previous cycle is selected again (should_notify, appended to its
\* group) when the next cycle checks it with its threshold still met; and
\* once that cycle's send for its group has succeeded and been committed,
\* the watch carries a stamp of that cycle.
C11_RetryAfterFailure ==
  /\ [][\A t \in Threads : \A w \in WatchIds :
          ( /\ ChecksWatch(t, w)
            /\ w \in run[t].failed_before
            /\ threshold_met(watches[w], Product[watches[w].product_id].base_price,
                             current_price[watches[w].product_id]) ) =>
            /\ Last(run'[t].results).watch_id = w
            /\ Last(run'[t].results).should_notify
            /\ \E g \in 1..Len(run'[t].notifications_to_send) :
                 Last(run'[t].notifications_to_send[g].triggered).watch_id = w]_vars
  /\ [](\A t \in Threads : \A i \in 1..Len(run[t].calls) :
          (run[t].calls[i].success /\ i < run[t].i_group) =>
            \A w \in Members(t, Key(run[t].calls[i])) \cap run[t].failed_before :
              /\ StampedIn(t, w)
              /\ watches[w].last_notified_at[1] <= clock)

\* C11 witness: a finished cycle that sent and stamped alice's two watches
\* after the previous cycle's send for them had failed.
C11_Witness ==
  /\ Finished("scheduler")
  /\ run["scheduler"].failed_before = {1, 2}
  /\ \E i \in 1..Len(run["scheduler"].calls) :
       /\ run["scheduler"].calls[i].success
       /\ Members("scheduler", Key(run["scheduler"].calls[i])) = {1, 2}
  /\ StampedIn("scheduler", 1)
  /\ StampedIn("scheduler", 2)

\* thread t's step in which the notifier is called
CallsNotifier(t) == Len(run'[t].calls) = Len(run[t].calls) + 1

\* the step takes thread t from phase a to phase b
Moves(t, a, b) == run[t].pc = a /\ run'[t].pc = b

\* what the phases have in common in C12 as claimed and as amended: the
\* prices of all products are committed before the first watch is checked,
\* and every watch is checked before the first notifier call
PricesThenWatchesThenCalls(t) ==
  /\ (\E w \in WatchIds : ChecksWatch(t, w)) =>
        /\ run[t].i_product > Len(ProductOrder)
        /\ current_price = run[t].session_price
        /\ run[t].calls = <<>>
  /\ CallsNotifier(t) =>
        /\ Len(run[t].results) = Len(WatchOrder)
        /\ \A w \in WatchIds : \E i \in 1..Len(run[t].results) :
             run[t].results[i].watch_id = w

\* C12 as claimed (phase order): every cycle goes Idle, PricesUpdating,
\* EvaluatingWatches, Dispatching, Committing, Idle, each phase entered once
\* and none skipped; prices are committed before the first check, all checks
\* precede the first notifier call, and no notifier call follows a stamp.
C12_PhaseOrder ==
  [][\A t \in Threads :
       /\ PricesThenWatchesThenCalls(t)
       /\ \/ run'[t].pc = run[t].pc
          \/ Moves(t, "Idle", "PricesUpdating")
          \/ Moves(t, "PricesUpdating", "EvaluatingWatches")
          \/ Moves(t, "EvaluatingWatches", "Dispatching")
          \/ Moves(t, "Dispatching", "Committing")
          \/ Moves(t, "Committing", "Idle")
       /\ CallsNotifier(t) =>
            /\ run[t].pending = <<>>
            /\ \A w \in WatchIds : watches[w].last_notified_at = run[t].before[w]]_vars

\* C12 as amended: every cycle goes through PricesUpdating, EvaluatingWatches
\* and Dispatching in that order, prices committed before the first check and
\* all checks before the first notifier call.  Committing alternates with
\* Dispatching, group by group: it is entered only by a notifier call that
\* succeeded, it stamps only the watches of that call's group, and it returns
\* to Dispatching for the next group; the cycle ends from Dispatching.
C12_PhasesPerGroup ==
  [][\A t \in Threads :
       /\ PricesThenWatchesThenCalls(t)
       /\ \/ run'[t].pc = run[t].pc
          \/ Moves(t, "Idle", "PricesUpdating")
          \/ Moves(t, "PricesUpdating", "EvaluatingWatches")
          \/ Moves(t, "EvaluatingWatches", "Dispatching")
          \/ Moves(t, "Dispatching", "Committing")
          \/ Moves(t, "Committing", "Dispatching")
          \/ Moves(t, "Dispatching", "Idle")
       /\ Moves(t, "Dispatching", "Committing") =>
            CallsNotifier(t) /\ Last(run'[t].calls).success
       /\ Moves(t, "Dispatching", "Idle") =>
            Len(run[t].calls) = Len(run[t].notifications_to_send)
       /\ run'[t].pending # run[t].pending => run[t].pc = "Committing"
       /\ (run'[t] # run[t] /\ watches' # watches) =>
            /\ Moves(t, "Committing", "Dispatching")
            /\ run[t].calls[run[t].i_group].success
            /\ \A w \in WatchIds :
                 watches'[w] # watches[w] =>
                   w \in Members(t, Key(run[t].calls[run[t].i_group]))]_vars

\* C12 witness: the cycle is about to call the notifier for its second group
\* while a watch of the first group already carries this cycle's stamp.
C12_Witness ==
  /\ run["scheduler"].pc = "Dispatching"
  /\ run["scheduler"].i_group = 2
  /\ Len(run["scheduler"].notifications_to_send) = 2
  /\ Len(run["scheduler"].calls) = 1
  /\ StampedIn("scheduler", 1)

\* C13 (a cycle always completes): no invocation of run_price_check ends by
\* an exception crossing the cycle boundary, whatever the store holds and
\* whatever fails inside the cycle; an invocation that has ended has returned
\* a summary.
C13_CycleCompletes ==
  \A t \in Threads :
    /\ run[t].pc # "Raised"
    /\ run[t].raised = <<>>
    /\ (run[t].pc = "Idle" /\ run[t].results # <<>>) => run[t].summary # <<>>

\* C14 (data inconsistency is skipped): once a cycle has come to a watch
\* whose product does not exist, the cycle has not ended on it; it holds a
\* diagnostic for that watch with a reason and should_notify false, and when
\* the cycle has ended every watch has its diagnostic and every group of the
\* other watches has had its notifier call.
C14_MissingProductSkipped ==
  \A t \in Threads : \A k \in 1..Len(WatchOrder) :
    LET w == WatchOrder[k]
    IN  ( /\ watches[w].product_id \notin ProductIds
          /\ run[t].i_watch > k \/ run[t].raised = <<"data", w>> ) =>
          /\ run[t].raised = <<>>
          /\ Len(run[t].results) >= k
          /\ run[t].results[k].watch_id = w
          /\ ~run[t].results[k].should_notify
          /\ run[t].results[k].reason # ""
          /\ run[t].pc = "Idle" =>
               /\ Len(run[t].results) = Len(WatchOrder)
               /\ Len(run[t].calls) = Len(run[t].notifications_to_send)

\* C15 (engine fault is isolated): when computing the new price of a product
\* has failed in a cycle, the cycle has not ended on it: that product keeps
\* its committed price, and the cycle goes on to update the other products, to
\* evaluate the watches and to return a summary.
C15_EngineFaultIsolated ==
  \A t \in Threads : \A p \in ProductIds :
    run[t].raised = <<"engine", p>> =>
      /\ run[t].pc # "Raised"
      /\ current_price[p] = run[t].session_price[p]
      /\ run[t].pc = "Idle" =>
           /\ run[t].summary # <<>>
           /\ run[t].i_product > Len(ProductOrder)
           /\ Len(run[t].results) = Len(WatchOrder)

\* thread t is inside an invocation of run_price_check
InCycle(t) == run[t].pc \notin {"Idle", "Raised"}

\* thread t's step is a notifier call that succeeds for a group holding watch w
Notifies(t, w) ==
  /\ CallsNotifier(t)
  /\ Last(run'[t].calls).success
  /\ \E i \in 1..Len(run[t].notifications_to_send[run[t].i_group].triggered) :
       run[t].notifications_to_send[run[t].i_group].triggered[i].watch_id = w

\* C17 (cycles are serialized): the cycle of the scheduler's thread and the
\* cycle of a request's thread are never in progress at the same time, and
\* no watch's recipient is notified for it while the watch carries a stamp
\* less than 3 days old (set by the other cycle).
C17_CyclesSerialized ==
  /\ [](\A t1, t2 \in Threads : t1 # t2 => ~(InCycle(t1) /\ InCycle(t2)))
  /\ [][\A t \in Threads : \A w \in WatchIds :
          Notifies(t, w) =>
            \/ watches[w].last_notified_at = <<>>
            \/ clock >= watches[w].last_notified_at[1] + 3]_vars

C18_AuditTrail ==
  \A t \in Threads :
    /\ Finished(t) =>
         LET details == run[t].summary[1].details
         IN  /\ Len(details) = Cardinality(WatchIds)
             /\ \A w \in WatchIds :
                  Cardinality({ i \in 1..Len(details) : details[i].watch_id = w }) = 1
             /\ details = run[t].results
    /\ \A i \in 1..Len(run[t].results) :
         LET r == run[t].results[i]
         IN  /\ r.should_notify <=> (r.threshold_met /\ r.cooldown_expired)
             /\ r.cooldown_expired => r.threshold_met
             /\ r.reason = ( IF ~r.threshold_met THEN "Threshold not met"
                             ELSE IF ~r.cooldown_expired THEN "Cooldown active"
                             ELSE "Ready to notify" )

\* C18 witness: a returned summary whose three diagnostics carry the three
\* reasons.
C18_Witness ==
  /\ Finished("scheduler")
  /\ { run["scheduler"].summary[1].details[i].reason :
         i \in 1..Len(run["scheduler"].summary[1].details) }
       = {"Threshold not met", "Cooldown active", "Ready to notify"}

\* C19 (the core touches only last_notified_at): no step of a cycle adds or
\* removes a watch or a product row or changes a watch's email, product or
\* threshold; a step changes a watch's last_notified_at only if it belongs
\* to a cycle in which that watch had should_notify = true and the notifier
\* returned success for the watch's group.
C19_OnlyLastNotifiedAt ==
  [][/\ DOMAIN watches' = DOMAIN watches
     /\ DOMAIN current_price' = DOMAIN current_price
     /\ \A w \in WatchIds :
          /\ watches'[w].email = watches[w].email
          /\ watches'[w].product_id = watches[w].product_id
          /\ watches'[w].threshold_type = watches[w].threshold_type
          /\ watches'[w].threshold_value = watches[w].threshold_value
          /\ watches'[w].last_notified_at # watches[w].last_notified_at =>
               \E t \in Threads :
                 /\ run'[t] # run[t]
                 /\ \E i \in Firing(t) : run[t].results[i].watch_id = w
                 /\ \E c \in 1..Len(run[t].calls) :
                      /\ run[t].calls[c].success
                      /\ w \in Members(t, Key(run[t].calls[c]))]_vars

\* C19 witness: a finished cycle in which watch 1 fired, was sent and is
\* stamped, watch 2 did not fire and watch 3 fired but its send failed: both
\* keep the last_notified_at they had.
C19_Witness ==
  /\ Finished("scheduler")
  /\ StampedIn("scheduler", 1)
  /\ ~run["scheduler"].results[2].should_notify
  /\ run["scheduler"].results[3].should_notify
  /\ \E c \in 1..Len(run["scheduler"].calls) :
       /\ ~run["scheduler"].calls[c].success
       /\ Key(run["scheduler"].calls[c]) = <<"bob", "A">>
  /\ watches[2].last_notified_at = run["scheduler"].before[2]
  /\ watches[3].last_notified_at = run["scheduler"].before[3]

\* C20 (check_single_product is read-only): a call of check_single_product
\* for a product id returns exactly one diagnostic for each watch on that
\* product and none for any other watch, changes no product price and no
\* watch, and calls the notifier for no one, also when a diagnostic says
\* should_notify.
C20_CheckSingleProductReadOnly ==
  [][\A t \in Threads :
       (run'[t] # run[t] /\ clock' = clock) =>
         /\ \E p \in ProductIds :
              LET on == { w \in WatchIds : watches[w].product_id = p }
                  results == run'[t].results
              IN  /\ Len(results) = Cardinality(on)
                  /\ \A w \in on :
                       Cardinality({ i \in 1..Len(results) : results[i].watch_id = w }) = 1
                  /\ \A i \in 1..Len(results) :
                       /\ results[i].product_price = current_price[p]
                       /\ results[i].should_notify <=>
                            /\ threshold_met(watches[results[i].watch_id],
                                             Product[p].base_price, current_price[p])
                            /\ is_cooldown_expired(watches[results[i].watch_id], clock)
         /\ watches' = watches
         /\ current_price' = current_price
         /\ run'[t].calls = <<>>
         /\ run'[t].pending = <<>>
         /\ run'[t].notifications_sent = 0]_vars

\* C20 witness: check_single_product has returned for product 1 with a
\* diagnostic that says should_notify for a never-notified watch, and the
\* watch is still never-notified.
C20_Witness ==
  /\ Len(run["request"].results) = 2
  /\ run["request"].calls = <<>>
  /\ \E i \in 1..Len(run["request"].results) :
       /\ run["request"].results[i].should_notify
       /\ watches[run["request"].results[i].watch_id].last_notified_at = <<>>
  /\ \E i \in 1..Len(run["request"].results) :
       /\ ~run["request"].results[i].should_notify
       /\ run["request"].results[i].threshold_met

\* the window of sale event s contains the time now
WindowContains(s, now) == ~(now < s.start_date \/ now > s.end_date)

\* the prices a random-walk update can give from a price
RandomOutcomes(price, base_price) ==
  { apply_random_fluctuation(price, base_price, pct) :
      pct \in PercentDraws(TRUE) \cup PercentDraws(FALSE) }

\* C28 (inactive sales): get_active_sale and SaleEvent.is_active agree at
\* every time and both take the window as closed at both ends; an update
\* counted as sale-driven sets the sale_price of an event whose window
\* contains the current time; a product with no such event is updated by
\* the random walk and counted as random-driven.
C28_InactiveSales ==
  /\ [](\A s \in SaleEvents :
          /\ is_active(s, clock) <=> s \in ActiveSales(s.product_id, clock)
          /\ is_active(s, clock) <=> WindowContains(s, clock))
  /\ [][\A t \in Threads : \A p \in ProductIds :
          UpdatesProduct(t, p) =>
            /\ (run'[t].price_summary.sale_events # run[t].price_summary.sale_events) =>
                 \E s \in SaleEvents :
                   /\ s.product_id = p
                   /\ WindowContains(s, clock)
                   /\ run'[t].session_price[p] = s.sale_price
            /\ (\A s \in SaleEvents : s.product_id = p => ~WindowContains(s, clock)) =>
                 /\ run'[t].session_price[p] \in
                      RandomOutcomes(run[t].session_price[p], Product[p].base_price)
                 /\ run'[t].price_summary.random_fluctuations =
                      run[t].price_summary.random_fluctuations + 1
                 /\ run'[t].price_summary.sale_events =
                      run[t].price_summary.sale_events]_vars

\* C28 witness: on day 3, the last day of product 1's second sale and a day
\* before product 2's only sale, the cycle has set product 1 to the sale
\* price and moved product 2 by the random walk.
C28_Witness ==
  /\ run["scheduler"].pc = "EvaluatingWatches"
  /\ clock = 3
  /\ current_price[1] = 12
  /\ current_price[2] # 15
  /\ run["scheduler"].price_summary.sale_events = 1
  /\ run["scheduler"].price_summary.random_fluctuations = 1

\* C26 (random walk re-establishes the bounds): whenever update_product_price
\* handles a product that has no active sale event, the product's new price
\* satisfies 0.5 * base_price <= current_price <= base_price, whatever the
\* previous price was, and the update is counted as random-driven.
C26_RandomWalkBounds ==
  [][\A t \in Threads : \A p \in ProductIds :
       (UpdatesProduct(t, p) /\ ActiveSales(p, clock) = {}) =>
         /\ 2 * run'[t].session_price[p] >= Product[p].base_price
         /\ run'[t].session_price[p] <= Product[p].base_price
         /\ run'[t].price_summary.random_fluctuations =
              run[t].price_summary.random_fluctuations + 1
         /\ run'[t].price_summary.sale_events =
              run[t].price_summary.sale_events]_vars

\* C26, the part that holds: the new price is at most base_price and at
\* least 0.5 * base_price rounded to a cent, and the update is counted as
\* random-driven.
C26_BoundsUpToRounding ==
  [][\A t \in Threads : \A p \in ProductIds :
       (UpdatesProduct(t, p) /\ ActiveSales(p, clock) = {}) =>
         /\ run'[t].session_price[p] >= Round(Product[p].base_price, 2)
         /\ run'[t].session_price[p] <= Product[p].base_price
         /\ run'[t].price_summary.random_fluctuations =
              run[t].price_summary.random_fluctuations + 1]_vars

\* C22 (missing credentials degrade to success): when no SENDGRID_API_KEY is
\* configured, every notifier call of a cycle builds and transmits no message
\* and returns success, and at the end of the cycle every watch whose
\* diagnostic has should_notify = true carries a stamp set in this cycle.
C22_MockModeSucceeds ==
  \A t \in Threads :
    ~api_key =>
      /\ \A i \in 1..Len(run[t].calls) :
           /\ run[t].calls[i].success
           /\ run[t].calls[i].message = <<>>
      /\ Finished(t) =>
           /\ run[t].notifications_sent = Len(run[t].notifications_to_send)
           /\ \A i \in Firing(t) : StampedIn(t, run[t].results[i].watch_id)

\* C22 witness: a cycle without API key has ended after two groups (alice's
\* and bob's) were dispatched, and all three watches are stamped.
C22_Witness ==
  /\ ~api_key
  /\ Finished("scheduler")
  /\ Len(run["scheduler"].calls) = 2
  /\ Cardinality(Firing("scheduler")) = 3
  /\ \A w \in WatchIds : StampedIn("scheduler", w)

\* C23 (summary counts): in every summary a cycle returns, watches_checked is
\* the number of watches, thresholds_met the number of diagnostics with
\* threshold_met = true, notifications_sent the number of groups whose send
\* succeeded, so that notifications_sent <= number of groups <=
\* thresholds_met <= watches_checked; and in its price summary total =
\* sale_events + random_fluctuations = number of products.
C23_SummaryCounts ==
  \A t \in Threads :
    Finished(t) =>
      LET s == run[t].summary[1]
          groups == { Key(run[t].results[i]) : i \in Firing(t) }
          met == { i \in 1..Len(s.details) : s.details[i].threshold_met }
          sent == { i \in 1..Len(run[t].calls) : run[t].calls[i].success }
      IN  /\ s.watches_checked = Cardinality(WatchIds)
          /\ Len(s.details) = s.watches_checked
          /\ s.thresholds_met = Cardinality(met)
          /\ s.notifications_sent = Cardinality(sent)
          /\ Len(run[t].calls) = Cardinality(groups)
          /\ s.notifications_sent <= Cardinality(groups)
          /\ Cardinality(groups) <= s.thresholds_met
          /\ s.thresholds_met <= s.watches_checked
          /\ s.price_updates.total = Cardinality(ProductIds)
          /\ s.price_updates.total =
               s.price_updates.sale_events + s.price_updates.random_fluctuations

\* C23 witness: a returned summary with all the counts different: three
\* watches checked, two thresholds met, two groups of which one was sent;
\* one product moved by a sale event and one by the random walk.
C23_Witness ==
  /\ Finished("scheduler")
  /\ run["scheduler"].summary[1].watches_checked = 3
  /\ run["scheduler"].summary[1].thresholds_met = 2
  /\ Len(run["scheduler"].calls) = 2
  /\ run["scheduler"].summary[1].notifications_sent = 1
  /\ run["scheduler"].summary[1].price_updates.sale_events = 1
  /\ run["scheduler"].summary[1].price_updates.random_fluctuations = 1

\* the messages thread t's cycle has built and handed to the mail client,
\* each with the deals list it was built from
Messages(t) ==
  { <<run[t].calls[i].message[1], run[t].calls[i].deals>> :
      i \in { j \in 1..Len(run[t].calls) : run[t].calls[j].message # <<>> } }

\* C25 (cheapest first): every message built for a group lists exactly the
\* group's deals, in ascending order of current_price, and its subject price
\* is the least current_price of the group, in whatever order the group's
\* watches were evaluated.
C25_CheapestFirst ==
  \A t \in Threads : \A m \in Messages(t) :
    LET listed == m[1].deals_sorted
        deals == m[2]
    IN  /\ Len(listed) = Len(deals)
        /\ \A d \in { deals[i] : i \in 1..Len(deals) } :
             Cardinality({ i \in 1..Len(listed) : listed[i] = d }) =
             Cardinality({ i \in 1..Len(deals) : deals[i] = d })
        /\ \A i, j \in 1..Len(listed) :
             i < j => listed[i].current_price <= listed[j].current_price
        /\ \A i \in 1..Len(deals) : m[1].best_price <= deals[i].current_price
        /\ \E i \in 1..Len(deals) : m[1].best_price = deals[i].current_price

\* C25 witness: a message for a group of two deals in which the watch
\* evaluated first (Walmart) has the higher price: the message lists Target
\* first and carries Target's price in the subject.
C25_Witness ==
  \E m \in Messages("scheduler") :
    /\ Len(m[2]) = 2
    /\ m[2][1].current_price > m[2][2].current_price
    /\ m[1].deals_sorted[1].retailer = "Target"
    /\ m[1].best_price = m[2][2].current_price

\* the places <<group, position>> of thread t's groups that hold watch w
PlacesOf(t, w) ==
  { <<g, j>> \in (1..Len(run[t].notifications_to_send)) \X (1..Cardinality(WatchIds)) :
      /\ j <= Len(run[t].notifications_to_send[g].triggered)
      /\ run[t].notifications_to_send[g].triggered[j].watch_id = w }

\* C27 (groups partition the firing watches): at every point of a cycle, no
\* two groups have the same key; every evaluated watch with should_notify =
\* true is in exactly one group, once, and that group's key is (the watch's
\* email, its product's name); a watch with should_notify = false is in no
\* group; and the deals list handed to the notifier for a group has one
\* record per watch of the group, carrying that watch's product retailer,
\* current price, base price and savings = base_price - current_price.
C27_GroupsPartition ==
  \A t \in Threads :
    LET groups == run[t].notifications_to_send
        results == run[t].results
    IN  /\ \A g, h \in 1..Len(groups) : groups[g].key = groups[h].key => g = h
        /\ \A i \in 1..Len(results) :
             LET w == results[i].watch_id
             IN  IF results[i].should_notify
                   THEN /\ Cardinality(PlacesOf(t, w)) = 1
                        /\ \A pl \in PlacesOf(t, w) :
                             /\ groups[pl[1]].key =
                                  <<watches[w].email, Product[watches[w].product_id].name>>
                             /\ groups[pl[1]].triggered[pl[2]] = results[i]
                   ELSE PlacesOf(t, w) = {}
        /\ \A g \in 1..Len(groups) :
             /\ groups[g].triggered # <<>>
             /\ \A j \in 1..Len(groups[g].triggered) :
                  \E i \in Firing(t) : results[i] = groups[g].triggered[j]
        /\ \A c \in 1..Len(run[t].calls) :
             \E g \in 1..Len(groups) :
               /\ groups[g].key = Key(run[t].calls[c])
               /\ Len(run[t].calls[c].deals) = Len(groups[g].triggered)
               /\ \A j \in 1..Len(groups[g].triggered) :
                    LET r == groups[g].triggered[j]
                        product == Product[watches[r.watch_id].product_id]
                        deal == run[t].calls[c].deals[j]
                    IN  /\ deal.retailer = product.retailer
                        /\ deal.current_price = r.product_price
                        /\ deal.base_price = product.base_price
                        /\ deal.savings = product.base_price - r.product_price

\* C27 witness: all three watches were evaluated, watch 2 (alice, Target) did
\* not fire; alice's group holds watch 1 only, bob's group holds watch 3, and
\* both groups were handed to the notifier with one deal each.
C27_Witness ==
  /\ run["scheduler"].pc = "Dispatching"
  /\ Len(run["scheduler"].calls) = 2
  /\ { run["scheduler"].results[i].watch_id : i \in Firing("scheduler") } = {1, 3}
  /\ Len(run["scheduler"].notifications_to_send) = 2
  /\ run["scheduler"].notifications_to_send[1].key = <<"alice", "A">>
  /\ Len(run["scheduler"].calls[1].deals) = 1
  /\ run["scheduler"].calls[1].deals[1].savings > 0

\* thread t's cycle has committed its price update
PricesCommitted(t) ==
  run[t].pc \in {"EvaluatingWatches", "Dispatching", "Committing"} \/ Finished(t)

\* thread t's cycle has evaluated watch w
Evaluated(t, w) == \E i \in 1..Len(run[t].results) : run[t].results[i].watch_id = w

\* the diagnostic of watch w in thread t's cycle
ResultOf(t, w) ==
  run[t].results[CHOOSE i \in 1..Len(run[t].results) : run[t].results[i].watch_id = w]

\* C24 (concrete scenario, at one twentieth of the claim's prices): product 2
\* has base_price 0.20 and current_price 0.20, an active sale event at 0.15,
\* and watch 2 (percent, 20) has last_notified_at null.  The first cycle
\* leaves current_price = 0.15 and discount_percent = 25.0, reports
\* threshold_met, cooldown_expired and should_notify true for the watch,
\* calls the notifier once for the watch's group and, the send succeeding,
\* stamps the watch with the cycle's time.  A cycle run immediately after
\* reports threshold_met = true and should_notify = false for the watch and
\* sends nothing for it.  At the claim's own prices (400.00, 300.00) the
\* discount is 25.0 as well and meets the watch's threshold.
C24_Scenario ==
  \A t \in Threads :
    /\ discount_percent(40000, 30000) = 250
    /\ threshold_met(watches[2], 40000, 30000)
    /\ PricesCommitted(t) =>
         /\ current_price[2] = 15
         /\ discount_percent(Product[2].base_price, current_price[2]) = 250
    /\ (Evaluated(t, 2) /\ run[t].before[2] = <<>>) =>
         /\ ResultOf(t, 2).product_price = 15
         /\ ResultOf(t, 2).discount_percent = 250
         /\ ResultOf(t, 2).threshold_met
         /\ ResultOf(t, 2).cooldown_expired
         /\ ResultOf(t, 2).should_notify
    /\ (Finished(t) /\ run[t].before[2] = <<>>) =>
         /\ Cardinality(CallsFor(t, <<"alice", "A">>)) = 1
         /\ \A c \in CallsFor(t, <<"alice", "A">>) :
              /\ \E j \in 1..Len(run[t].calls[c].deals) :
                   /\ run[t].calls[c].deals[j].retailer = Product[2].retailer
                   /\ run[t].calls[c].deals[j].current_price = 15
              /\ run[t].calls[c].success =>
                   /\ run[t].summary[1].notifications_sent >= 1
                   /\ watches[2].last_notified_at = <<clock>>
    /\ (Evaluated(t, 2) /\ run[t].before[2] = <<clock>>) =>
         /\ ResultOf(t, 2).threshold_met
         /\ ~ResultOf(t, 2).cooldown_expired
         /\ ~ResultOf(t, 2).should_notify
         /\ 2 \notin Members(t, <<"alice", "A">>)
         /\ \A c \in 1..Len(run[t].calls) :
              \A j \in 1..Len(run[t].calls[c].deals) :
                run[t].calls[c].deals[j].retailer # Product[2].retailer

\* C24 witness: the second of two back-to-back cycles has ended: watch 2
\* carries the stamp of the first, product 2 is at the sale price, the
\* watch's threshold is met, it does not ask for a notification, and the
\* cycle sent nothing.
C24_Witness ==
  /\ Finished("scheduler")
  /\ run["scheduler"].before[2] = <<clock>>
  /\ watches[2].last_notified_at = <<clock>>
  /\ current_price[2] = 15
  /\ ResultOf("scheduler", 2).threshold_met
  /\ ~ResultOf("scheduler", 2).should_notify
  /\ run["scheduler"].calls = <<>>
  /\ run["scheduler"].summary[1].notifications_sent = 0

\* the request thread's step is a registration that index() accepted
Registers == 
  /\ run'["request"].response # run["request"].response
  /\ run'["request"].response # <<>>
  /\ run'["request"].response[1].message_type = "success"

\* C21 (watch uniqueness under registration): after any sequence of
\* registration and seeding requests no two watches have the same email and
\* product; and a registration for a pair that has a watch gives that watch
\* the submitted threshold_type and threshold_value and leaves the number of
\* watches of the pair at one.
C21_WatchUniqueness ==
  /\ [](\A i, j \in 1..Len(watches) :
          (watches[i].email = watches[j].email /\
           watches[i].product_id = watches[j].product_id) => i = j)
  /\ [][Registers =>
          LET form == run'["request"].response[1].form
              email == strip_lower(form.email)
          IN  \A p \in ProductIds :
                WatchesOf(watches, email, p) # {} =>
                  /\ WatchesOf(watches', email, p) = WatchesOf(watches, email, p)
                  /\ \A w \in WatchesOf(watches', email, p) :
                       /\ watches'[w].threshold_type = form.threshold_type
                       /\ <<watches'[w].threshold_value>> = float(form.threshold_value)]_vars

\* C21 witness: alice's watch on product 1 was created before bob's two
\* watches and her watch on product 2 after them, so the registration that
\* created the latter found the former; it carries the threshold of that
\* registration (absolute), alice has one watch per product and the table
\* has four rows.
C21_Witness ==
  /\ run["request"].response # <<>>
  /\ run["request"].response[1].message_type = "success"
  /\ strip_lower(run["request"].response[1].form.email) = "alice"
  /\ Len(watches) = 4
  /\ watches[1].email = "alice" /\ watches[1].product_id = 1
  /\ watches[2].email = "bob" /\ watches[3].email = "bob"
  /\ watches[4].email = "alice" /\ watches[4].product_id = 2
  /\ watches[1].threshold_type = "absolute" /\ watches[1].threshold_value = 16
  /\ watches[4].threshold_type = "absolute" /\ watches[4].threshold_value = 16

\* C29 (groups are threshold-homogeneous): in every state reached through
\* registrations and seeding, any two watches with the same email on products
\* with the same name have the same threshold_type and threshold_value (so
\* the threshold of a group's first watch is that of every watch of the
\* group).
C29_ThresholdHomogeneous ==
  \A i, j \in 1..Len(watches) :
    (/\ watches[i].email = watches[j].email
     /\ Product[watches[i].product_id].name = Product[watches[j].product_id].name) =>
      /\ watches[i].threshold_type = watches[j].threshold_type
      /\ watches[i].threshold_value = watches[j].threshold_value

\* C29 witness: alice's watch on product 1 was created by seed_test_watch
\* (percent, 20) before bob's watches, her watch on product 2 by a later
\* registration with an absolute threshold, and both carry the absolute
\* threshold; bob's two watches carry another threshold.
C29_Witness ==
  /\ Len(watches) = 4
  /\ watches[1].email = "alice" /\ watches[1].product_id = 1
  /\ watches[4].email = "alice" /\ watches[4].product_id = 2
  /\ watches[1].threshold_type = "absolute"
  /\ watches[4].threshold_type = "absolute"
  /\ watches[2].email = "bob" /\ watches[2].threshold_type = "percent"
  /\ watches[3].email = "bob" /\ watches[3].threshold_type = "percent"
  /\ run["request"].response # <<>>
  /\ run["request"].response[1].message_type = "error"

\* C30 (registration fans out by name): a registration that index() accepts
\* ends, in the one step of its commit, with exactly one watch of the
\* submitted (lower-cased) email on every product whose name is the submitted
\* name, each carrying the submitted threshold_type and threshold_value, and
\* the watches of other recipients are left as they were.
C30_FanOutByName ==
  [][Registers =>
       LET form == run'["request"].response[1].form
           email == strip_lower(form.email)
       IN  /\ \E p \in ProductIds : Product[p].name = form.product_name
           /\ \A p \in ProductIds :
                Product[p].name = form.product_name =>
                  /\ Cardinality(WatchesOf(watches', email, p)) = 1
                  /\ \A w \in WatchesOf(watches', email, p) :
                       /\ watches'[w].threshold_type = form.threshold_type
                       /\ <<watches'[w].threshold_value>> = float(form.threshold_value)
           /\ \A w \in 1..Len(watches) :
                /\ w <= Len(watches')
                /\ watches[w].email # email => watches'[w] = watches[w]
           /\ \A w \in 1..Len(watches') :
                w > Len(watches) => watches'[w].email = email]_vars

\* C30 witness: alice holds the test watch on the Walmart row only; bob's
\* registration for "A" was accepted and he has a watch on both retailers'
\* rows, both with the submitted threshold.
C30_Witness ==
  /\ run["request"].response # <<>>
  /\ run["request"].response[1].message_type = "success"
  /\ run["request"].response[1].form.email = "bob"
  /\ run["request"].response[1].form.threshold_type = "dollars"
  /\ Len(watches) = 3
  /\ watches[1].email = "alice" /\ watches[1].product_id = 1
  /\ watches[2] = [email |-> "bob", product_id |-> 1, threshold_type |-> "dollars",
                   threshold_value |-> 16, last_notified_at |-> <<>>]
  /\ watches[3] = [email |-> "bob", product_id |-> 2, threshold_type |-> "dollars",
                   threshold_value |-> 16, last_notified_at |-> <<>>]

\* the form has a blank field, a threshold that is not a number, or a
\* product name of no product
RejectedForm(form) ==
  \/ strip_lower(form.email) = ""
  \/ form.product_name = ""
  \/ form.threshold_type = ""
  \/ form.threshold_value = ""
  \/ form.threshold_value \notin {"20", "0.16", "0.12"}
  \/ \A p \in ProductIds : Product[p].name # form.product_name

\* C31 (rejected registration changes nothing): a registration whose form has
\* a missing field, a threshold value that is not a number or a product name
\* that matches no product leaves the watches table as it was (no watch
\* created, none modified) and renders an error; and every registration that
\* renders an error leaves the table as it was.
C31_RejectedChangesNothing ==
  [][/\ \A form \in Forms :
          (Register(form) /\ RejectedForm(form)) =>
            /\ watches' = watches
            /\ run'["request"].response[1].message_type = "error"
     /\ (/\ run'["request"].response # run["request"].response
         /\ run'["request"].response # <<>>
         /\ run'["request"].response[1].message_type = "error") =>
          watches' = watches]_vars

\* C31 witness: alice has her two watches (percent, 20) and the last request,
\* a form for her with a threshold that is not a number, was answered
\* "Invalid threshold value.".
C31_Witness ==
  /\ Len(watches) = 2
  /\ \A w \in 1..2 :
       /\ watches[w].email = "alice"
       /\ watches[w].threshold_type = "percent"
       /\ watches[w].threshold_value = 200
  /\ run["request"].response # <<>>
  /\ run["request"].response[1].form.email = "alice"
  /\ run["request"].response[1].form.product_name = "A"
  /\ run["request"].response[1].form.threshold_value = "abc"
  /\ run["request"].response[1].message = "Invalid threshold value."

\* C32 (rescheduling keeps the job alive): after update_schedule(n) on an
\* initialized scheduler the job 'price_check' exists with the trigger for n
\* (every n minutes, or daily at 08:00 UTC when n is None), the job can still
\* start a cycle and get_next_run_time returns a time rather than None.
C32_RescheduleKeepsJob ==
  [][\A n \in IntervalInputs :
       (UpdateSchedule(n) /\ scheduler # <<>>) =>
         /\ scheduler' # <<>>
         /\ get_job(scheduler') # <<>>
         /\ get_job(scheduler')[1].trigger = TriggerFor(n)
         /\ get_next_run_time(scheduler', clock') # <<>>]_vars

\* C32, what holds instead: an initialized scheduler that update_schedule has
\* been called on has no job, and get_next_run_time returns None.
C32_RescheduleRemovesJob ==
  [][\A n \in IntervalInputs :
       (UpdateSchedule(n) /\ scheduler # <<>>) =>
         /\ scheduler' # <<>>
         /\ get_job(scheduler') = <<>>
         /\ get_next_run_time(scheduler', clock') = <<>>]_vars

\* C33 (last_notified_at only moves forward): over cycles and registrations,
\* a watch's last_notified_at, once non-null, never becomes null again and
\* never decreases; it is never later than the current time, and when a
\* cycle has returned, no stamp is later than that cycle's timestamp.
C33_StampsMoveForward ==
  /\ [][\A w \in WatchIds :
          watches[w].last_notified_at # <<>> =>
            /\ watches'[w].last_notified_at # <<>>
            /\ watches'[w].last_notified_at[1] >= watches[w].last_notified_at[1]]_vars
  /\ [](\A w \in WatchIds :
          watches[w].last_notified_at # <<>> =>
            /\ watches[w].last_notified_at[1] <= clock
            /\ \A t \in Threads :
                 Finished(t) =>
                   watches[w].last_notified_at[1] <= run[t].summary[1].timestamp)

\* C33 witness: watch 1 was stamped by an earlier cycle, alice then changed
\* her threshold to absolute, and the cycle that has just returned stamped
\* the watch again, later than before and not later than its own timestamp.
C33_Witness ==
  /\ Finished("scheduler")
  /\ run["scheduler"].before[1] # <<>>
  /\ watches[1].threshold_type = "absolute"
  /\ watches[1].last_notified_at # <<>>
  /\ watches[1].last_notified_at[1] > run["scheduler"].before[1][1]
  /\ watches[1].last_notified_at[1] <= run["scheduler"].summary[1].timestamp

\* C34 (re-registration keeps the cooldown): a registration that index()
\* accepts for a recipient who has the watches leaves every watch's
\* last_notified_at (and email and product) as it was; and a watch stamped
\* at T is not selected by any check made before T + 3 days, whatever its
\* threshold is by then.
C34_ReRegistrationKeepsCooldown ==
  /\ [][Registers =>
          \A w \in WatchIds :
            /\ watches'[w].last_notified_at = watches[w].last_notified_at
            /\ watches'[w].email = watches[w].email
            /\ watches'[w].product_id = watches[w].product_id]_vars
  /\ [][\A t \in Threads : \A w \in WatchIds :
          (/\ ChecksWatch(t, w)
           /\ watches[w].last_notified_at # <<>>
           /\ clock < watches[w].last_notified_at[1] + NOTIFICATION_COOLDOWN_DAYS) =>
            /\ ~Last(run'[t].results).should_notify
            /\ run'[t].notifications_to_send = run[t].notifications_to_send]_vars

\* C34 witness: watch 1 was stamped on day 1, when product 1 was on sale at
\* 0.15 (above the absolute threshold 0.12 it carries now, so it fired with
\* its percent threshold and was re-registered afterwards); on day 3, with
\* product 1 at 0.12, its threshold is met and it is suppressed by the
\* cooldown.
C34_Witness ==
  /\ clock = 3
  /\ Evaluated("scheduler", 1)
  /\ watches[1].last_notified_at = <<1>>
  /\ watches[1].threshold_type = "absolute"
  /\ watches[1].threshold_value = 12
  /\ ResultOf("scheduler", 1).threshold_type = "absolute"
  /\ ResultOf("scheduler", 1).product_price = 12
  /\ ResultOf("scheduler", 1).threshold_met
  /\ ~ResultOf("scheduler", 1).should_notify
  /\ ResultOf("scheduler", 1).reason = "Cooldown active"

\* a percent watch with a threshold just above 50 percent
WatchAbove50 ==
  [email |-> "alice", product_id |-> 1, threshold_type |-> "percent",
   threshold_value |-> 501, last_notified_at |-> <<>>]

C35_AtMostRoundedHalfOff ==
  \A p \in ProductIds :
    /\ discount_percent(Product[p].base_price, current_price[p]) >= 0
    /\ discount_percent(Product[p].base_price, current_price[p]) <=
         discount_percent(Product[p].base_price, Round(Product[p].base_price, 2))

====
